---- MODULE Spec2Model ----
(***************************************************************************)
(* ParticleSim (src/src/main.cpp): a fixed population of particles moving  *)
(* in a 500 x 500 box, advanced by update_particles once per frame of the  *)
(* loop of main(), which also times the call, keeps a running mean of the  *)
(* timings, draws the particles and polls the keyboard.                    *)
(*                                                                         *)
(* Number representation.  Particle fields are C++ floats.  Every position *)
(* the model reaches is a multiple of 0.5 of magnitude far below 2^22, and *)
(* every velocity is an integer; such values are exactly representable in  *)
(* IEEE-754 single precision and their sums are exact.  A position is      *)
(* therefore held as an integer count of half units (x = 996 is 498.0),    *)
(* a velocity as an integer.  The one inexact operation of the program is  *)
(* the product vx * dt with dt = 0.1f, which is not one tenth: it is       *)
(* modelled by F32Mul, which forms the exact product and rounds it to a    *)
(* 24-bit significand (round to nearest, ties to even) as the hardware     *)
(* multiply does.  The source performs the multiply and the add as two     *)
(* operations, and so does the model.                                      *)
(***************************************************************************)
EXTENDS Integers, Sequences, FiniteSets, TLC

\* ------------------------------------------------------------------ bounds

\* Particles in the modelled population (the program's NUM_PARTICLES is 5000).
NUM_PARTICLES == 2

\* Frames of the loop of main() that are explored; the loop itself is unbounded.
MaxFrames == 2

\* Frames explored by the metrics specification.
MaxFramesMetrics == 3

\* -------------------------------------------------------- program constants

\* The wall coordinate of `p.x > 500` and the modulus of `rand() % 500`.
BOUNDARY == 500

\* The modulus of `rand() % 10`.
VEL_RANGE == 10

\* The offset of `rand() % 10 - 5`.
VEL_OFFSET == 5

\* The factor 5.0f of the initial velocities.
VEL_SCALE == 5

\* The key code compared with cv::waitKey's result.
ESC == 27

\* The significand width of an IEEE-754 single (std::numeric_limits<float>::digits).
F32_DIGITS == 24

\* A float constant m * 2^(-e) is the pair <<m, e>>.
\* 0.1f is 0x3DCCCCCD = 13421773 * 2^-27 = 0.100000001490116...
DT == <<13421773, 27>>

\* 1.0f, the time step of the specification's reflection example.
ONE == <<1, 0>>

\* ------------------------------------------------------------- input sets

\* Outcomes of rand() the frame-loop specification draws from: 0 and a value
\* above both moduli (999 % 500 = 499, 999 % 10 = 9).
RandVals == {0, 999}

\* Outcomes of rand() the initialisation specification draws from; 2147483647
\* is glibc's RAND_MAX (% 500 = 147, % 10 = 7).
RandInit == {0, 999, 2147483647}

\* Measured durations of one update_particles call, in microseconds.
Durations == {10, 20}

\* Durations for the metrics specification.
DurationsWide == {10, 20, 30}

\* Results of cv::waitKey(16): -1 is "no key", 32 the space bar, 27 ESC.
Keys == {-1, 27, 32}

VARIABLES
    pc,                 \* position in main(): init, step, record, render,
                        \* present, poll, stopped; call / returned for a bare call
    init_i,             \* particles initialised so far by the loop of line 49
    particles,          \* std::vector<Particle> particles
    dt,                 \* the dt argument of the (last / pending) update_particles call
    total_latency_us,   \* long long total_latency_us
    frame_count,        \* long long frame_count
    current_latency,    \* long long current_latency
    average_latency,    \* double average_latency, as the fraction <<num, den>>
    frame,              \* cv::Mat frame: the circles and the two texts drawn on it
    shown,              \* the frame last handed to cv::imshow
    key,                \* the last result of cv::waitKey
    \* history variables (not program state)
    prev,               \* particles as they were before the last update_particles call
    start_particles,    \* particles as they were when the frame loop was entered
    history,            \* every duration recorded so far, in order
    flipped,            \* per particle: which velocities the last call negated
    prev_flipped,       \* per particle: which velocities the call before that negated
    step_calls,         \* calls of update_particles so far
    render_calls,       \* frames drawn so far
    present_calls,      \* cv::imshow calls so far
    poll_calls          \* cv::waitKey calls so far

vars == <<pc, init_i, particles, dt, total_latency_us, frame_count, current_latency,
          average_latency, frame, shown, key, prev, start_particles, history,
          flipped, prev_flipped, step_calls, render_calls, present_calls, poll_calls>>

\* ------------------------------------------------------------- arithmetic

\* An integer-valued float on the position grid (half units).
ToGrid(n) == 2 * n

\* By how many bits the natural number n exceeds a float's significand.
RECURSIVE ExcessBits(_)
ExcessBits(n) == IF n < 2 ^ F32_DIGITS THEN 0 ELSE 1 + ExcessBits(n \div 2)

\* Round the natural number n to F32_DIGITS significant bits, to nearest, ties to even.
RoundSig(n) ==
    LET excess == ExcessBits(n)
    IN  IF excess = 0 THEN n
        ELSE LET unit == 2 ^ excess
                 q    == n \div unit
                 rem  == n % unit
                 up   == (2 * rem > unit) \/ (2 * rem = unit /\ q % 2 = 1)
             IN  (IF up THEN q + 1 ELSE q) * unit

\* The float product v * f of an integer-valued float v and a float constant
\* f = <<m, e>>: the result in units of 2^(-e).
F32Mul(v, f) ==
    LET mag == RoundSig((IF v < 0 THEN -v ELSE v) * f[1])
    IN  IF v < 0 THEN -mag ELSE mag

\* Whether a float value r * 2^(-e) lies on the position grid (is a multiple of 0.5).
OnGrid(r, e) == e <= 1 \/ (r % (2 ^ (e - 1))) = 0

\* A float value r * 2^(-e) in half units.
HalfUnits(r, e) ==
    IF e = 0 THEN 2 * r
    ELSE IF r >= 0 THEN r \div (2 ^ (e - 1)) ELSE -((-r) \div (2 ^ (e - 1)))

\* p.x + (p.vx * dt): the float sum, exact on the grid.
Advance(pos, v, f) == pos + HalfUnits(F32Mul(v, f), f[2])

\* float -> int conversion of cv::Point(particles[i].x, ...): truncation toward zero.
TruncToInt(pos) == IF pos >= 0 THEN pos \div 2 ELSE -((-pos) \div 2)

\* ------------------------------------------------------- update_particles

\* Mutation: the walls themselves count as outside.
OutOfBounds_inclusive(pos) == pos <= 0 \/ pos >= ToGrid(BOUNDARY)

\* `p.x < 0 || p.x > 500`
OutOfBounds(pos) == pos < 0 \/ pos > ToGrid(BOUNDARY)

\* `if (...) p.vx *= -1;`
Reflect(pos, v) == IF OutOfBounds(pos) THEN -v ELSE v

Clamp(pos) == IF pos < 0 THEN 0 ELSE IF pos > ToGrid(BOUNDARY) THEN ToGrid(BOUNDARY) ELSE pos

\* Mutation: the particle is put back on the wall it crossed.
UpdateOne_clamped(p, f) ==
    LET nx == Advance(p.x, p.vx, f)
        ny == Advance(p.y, p.vy, f)
    IN  [x |-> Clamp(nx), y |-> Clamp(ny), vx |-> Reflect(nx, p.vx), vy |-> Reflect(ny, p.vy)]

\* The body of the loop of update_particles, for one particle.
UpdateOne(p, f) ==
    LET nx == Advance(p.x, p.vx, f)
        ny == Advance(p.y, p.vy, f)
    IN  [x |-> nx, y |-> ny, vx |-> Reflect(nx, p.vx), vy |-> Reflect(ny, p.vy)]

\* `for (auto& p : data)`: every element of data, once.
update_particles(data, f) == [i \in 1..Len(data) |-> UpdateOne(data[i], f)]

\* Which velocities a call changed, per particle.
Flips(before, after) ==
    [i \in 1..Len(before) |-> [x |-> after[i].vx # before[i].vx,
                               y |-> after[i].vy # before[i].vy]]

NoFlips == [i \in 1..NUM_PARTICLES |-> [x |-> FALSE, y |-> FALSE]]

\* ---------------------------------------------------------- initialisation

\* A value-initialised Particle.
ZeroParticle == [x |-> 0, y |-> 0, vx |-> 0, vy |-> 0]

\* Mutation: the modulus is forgotten.
InitPos_unbounded(r) == ToGrid(r)

\* `rand() % 500`, converted to float.
InitPos(r) == ToGrid(r % BOUNDARY)

\* Mutation: the offset is off by one.
InitVel_shifted(r) == ((r % VEL_RANGE) - (VEL_OFFSET - 1)) * VEL_SCALE

\* `(rand() % 10 - 5) * 5.0f`
InitVel(r) == ((r % VEL_RANGE) - VEL_OFFSET) * VEL_SCALE

\* The state after `std::vector<Particle> particles(NUM_PARTICLES);` and the
\* declarations of the two accumulators.
Init ==
    /\ pc = "init"
    /\ init_i = 0
    /\ particles = [i \in 1..NUM_PARTICLES |-> ZeroParticle]
    /\ dt = DT
    /\ total_latency_us = 0
    /\ frame_count = 0
    /\ current_latency = 0
    /\ average_latency = <<0, 0>>
    /\ frame = [circles |-> <<>>, instant |-> 0, average |-> 0]
    /\ shown = [circles |-> <<>>, instant |-> 0, average |-> 0]
    /\ key = -1
    /\ prev = [i \in 1..NUM_PARTICLES |-> ZeroParticle]
    /\ start_particles = [i \in 1..NUM_PARTICLES |-> ZeroParticle]
    /\ history = <<>>
    /\ flipped = NoFlips
    /\ prev_flipped = NoFlips
    /\ step_calls = 0
    /\ render_calls = 0
    /\ present_calls = 0
    /\ poll_calls = 0

\* One iteration of the initialisation loop: four rand() calls, drawn from R.
InitParticle(R) ==
    /\ pc = "init"
    /\ init_i < Len(particles)
    /\ \E r1 \in R, r2 \in R, r3 \in R, r4 \in R :
          particles' = [particles EXCEPT ![init_i + 1] =
                           [x |-> InitPos(r1), y |-> InitPos(r2),
                            vx |-> InitVel(r3), vy |-> InitVel(r4)]]
    /\ init_i' = init_i + 1
    /\ pc' = IF init_i' = Len(particles) THEN "step" ELSE "init"
    /\ start_particles' = IF init_i' = Len(particles) THEN particles' ELSE start_particles
    /\ prev' = start_particles'
    /\ UNCHANGED <<dt, total_latency_us, frame_count, current_latency, average_latency,
                   frame, shown, key, history, flipped, prev_flipped, step_calls,
                   render_calls, present_calls, poll_calls>>

\* ------------------------------------------------------------- frame loop

\* Mutation: the time step follows the measured duration of the call.
Step_elapsed(d) ==
    /\ pc = "step"
    /\ dt' = <<d, 0>>
    /\ prev' = particles
    /\ particles' = update_particles(particles, dt')
    /\ prev_flipped' = flipped
    /\ flipped' = Flips(particles, particles')
    /\ current_latency' = d
    /\ step_calls' = step_calls + 1
    /\ pc' = "record"
    /\ UNCHANGED <<init_i, total_latency_us, frame_count, average_latency, frame, shown,
                   key, start_particles, history, render_calls, present_calls, poll_calls>>

\* Lines 66-75: update_particles(particles, 0.1f) between two clock readings
\* that are d microseconds apart.
Step(d) ==
    /\ pc = "step"
    /\ dt' = DT
    /\ prev' = particles
    /\ particles' = update_particles(particles, dt')
    /\ prev_flipped' = flipped
    /\ flipped' = Flips(particles, particles')
    /\ current_latency' = d
    /\ step_calls' = step_calls + 1
    /\ pc' = "record"
    /\ UNCHANGED <<init_i, total_latency_us, frame_count, average_latency, frame, shown,
                   key, start_particles, history, render_calls, present_calls, poll_calls>>

\* Mutation: the sum is restarted by every record (a window of one).
Record_windowed ==
    /\ pc = "record"
    /\ total_latency_us' = current_latency
    /\ frame_count' = frame_count + 1
    /\ average_latency' = <<total_latency_us', frame_count'>>
    /\ history' = Append(history, current_latency)
    /\ pc' = "render"
    /\ UNCHANGED <<init_i, particles, dt, current_latency, frame, shown, key, prev,
                   start_particles, flipped, prev_flipped, step_calls, render_calls,
                   present_calls, poll_calls>>

\* Mutation: the average is taken before the duration is counted.
Record_late_count ==
    /\ pc = "record"
    /\ total_latency_us' = total_latency_us + current_latency
    /\ average_latency' = <<total_latency_us', frame_count>>
    /\ frame_count' = frame_count + 1
    /\ history' = Append(history, current_latency)
    /\ pc' = "render"
    /\ UNCHANGED <<init_i, particles, dt, current_latency, frame, shown, key, prev,
                   start_particles, flipped, prev_flipped, step_calls, render_calls,
                   present_calls, poll_calls>>

\* Lines 77-79: the metrics update.
Record ==
    /\ pc = "record"
    /\ total_latency_us' = total_latency_us + current_latency
    /\ frame_count' = frame_count + 1
    /\ average_latency' = <<total_latency_us', frame_count'>>
    /\ history' = Append(history, current_latency)
    /\ pc' = "render"
    /\ UNCHANGED <<init_i, particles, dt, current_latency, frame, shown, key, prev,
                   start_particles, flipped, prev_flipped, step_calls, render_calls,
                   present_calls, poll_calls>>

\* cv::Scalar(0, 0, 255) and cv::Scalar(0, 255, 255), blue-green-red.
RED == <<0, 0, 255>>
YELLOW == <<0, 255, 255>>

\* Mutation: the colour follows the side of the box the particle is on.
ColorOf_by_position(i, p) == IF p.x < ToGrid(BOUNDARY \div 2) THEN RED ELSE YELLOW

\* `(i < NUM_PARTICLES/2) ? cv::Scalar(0, 0, 255) : cv::Scalar(0, 255, 255)`
\* for the zero-based index i; the particle p is at hand and not consulted.
ColorOf(i, p) == IF i < NUM_PARTICLES \div 2 THEN RED ELSE YELLOW

\* Mutation: the draw loop stops one short.
RenderCount_short == NUM_PARTICLES - 1

\* The bound of `for (int i = 0; i < NUM_PARTICLES; ++i)`.
RenderCount == NUM_PARTICLES

\* (int)average_latency, for a non-negative quotient.
AverageText(avg) == avg[1] \div avg[2]

\* Lines 84-95: a fresh canvas, one circle per index, the two texts.
\* circles[i + 1] is the circle drawn for the zero-based index i.
Render ==
    /\ pc = "render"
    /\ frame' = [circles |-> [k \in 1..RenderCount |->
                                 [index |-> k - 1,
                                  cx    |-> TruncToInt(particles[k].x),
                                  cy    |-> TruncToInt(particles[k].y),
                                  color |-> ColorOf(k - 1, particles[k])]],
                 instant |-> current_latency,
                 average |-> AverageText(average_latency)]
    /\ render_calls' = render_calls + 1
    /\ pc' = "present"
    /\ UNCHANGED <<init_i, particles, dt, total_latency_us, frame_count, current_latency,
                   average_latency, shown, key, prev, start_particles, history, flipped,
                   prev_flipped, step_calls, present_calls, poll_calls>>

\* Line 97: cv::imshow.
Present ==
    /\ pc = "present"
    /\ shown' = frame
    /\ present_calls' = present_calls + 1
    /\ pc' = "poll"
    /\ UNCHANGED <<init_i, particles, dt, total_latency_us, frame_count, current_latency,
                   average_latency, frame, key, prev, start_particles, history, flipped,
                   prev_flipped, step_calls, render_calls, poll_calls>>

\* Mutation: any key press ends the loop.
Cancels_any_key(k) == k # -1

\* `cv::waitKey(16) == 27`
Cancels(k) == k = ESC

\* Line 103: the key poll; k is what cv::waitKey returns.  Exploration stops
\* after F frames unless the loop is left.
Poll(k, F) ==
    /\ pc = "poll"
    /\ Cancels(k) \/ frame_count < F
    /\ key' = k
    /\ poll_calls' = poll_calls + 1
    /\ pc' = IF Cancels(k) THEN "stopped" ELSE "step"
    /\ UNCHANGED <<init_i, particles, dt, total_latency_us, frame_count, current_latency,
                   average_latency, frame, shown, prev, start_particles, history, flipped,
                   prev_flipped, step_calls, render_calls, present_calls>>

\* main() with rand() drawing from R and the clock from D, for F frames.
Program(R, D, F) ==
    \/ InitParticle(R)
    \/ \E d \in D : Step(d)
    \/ Record
    \/ Render
    \/ Present
    \/ \E k \in Keys : Poll(k, F)

Next == Program(RandVals, Durations, MaxFrames)

Spec == Init /\ [][Next]_vars

\* main() restricted to its initialisation loop, over a wider range of rand().
NextInit == InitParticle(RandInit)

SpecInit == Init /\ [][NextInit]_vars

\* main() with one outcome of rand() and a wider range of clock readings.
NextMetrics == Program({0}, DurationsWide, MaxFramesMetrics)

SpecMetrics == Init /\ [][NextMetrics]_vars

\* -------------------------------------------- update_particles on its own

\* Arguments of one call: <<position, velocity>> per axis, positions in whole
\* units.  They put the advanced position below, on, and above each wall for
\* one or the other time step.
AxisInputs == {<<498, 10>>, <<490, 10>>, <<499, 10>>, <<0, -10>>, <<1, -10>>, <<500, 0>>}

ParticleInputs ==
    {[x |-> ToGrid(a[1]), vx |-> a[2], y |-> ToGrid(b[1]), vy |-> b[2]] :
        a \in AxisInputs, b \in AxisInputs}

\* The time steps a call is made with: 0.1f and 1.0f.
DtInputs == {DT, ONE}

\* A call update_particles(data, f) about to be made, for every data and f of
\* the input sets.
InitCall ==
    /\ pc = "call"
    /\ particles \in [1..NUM_PARTICLES -> ParticleInputs]
    /\ dt \in DtInputs
    /\ init_i = NUM_PARTICLES
    /\ total_latency_us = 0
    /\ frame_count = 0
    /\ current_latency = 0
    /\ average_latency = <<0, 0>>
    /\ frame = [circles |-> <<>>, instant |-> 0, average |-> 0]
    /\ shown = [circles |-> <<>>, instant |-> 0, average |-> 0]
    /\ key = -1
    /\ prev = particles
    /\ start_particles = particles
    /\ history = <<>>
    /\ flipped = NoFlips
    /\ prev_flipped = NoFlips
    /\ step_calls = 0
    /\ render_calls = 0
    /\ present_calls = 0
    /\ poll_calls = 0

\* The call and its return.
CallUpdate ==
    /\ pc = "call"
    /\ prev' = particles
    /\ particles' = update_particles(particles, dt)
    /\ prev_flipped' = flipped
    /\ flipped' = Flips(particles, particles')
    /\ step_calls' = step_calls + 1
    /\ pc' = "returned"
    /\ UNCHANGED <<init_i, dt, total_latency_us, frame_count, current_latency,
                   average_latency, frame, shown, key, start_particles, history,
                   render_calls, present_calls, poll_calls>>

NextCall == CallUpdate

SpecStep == InitCall /\ [][NextCall]_vars

\* ------------------------------------------------------------------ claims

\* The particle indices.
Idx == 1..NUM_PARTICLES

\* A position outside the closed box [0, 500], written out for the claims.
Outside(pos) == pos < 0 \/ pos > 2 * 500

\* The time step as the decimal it is written as, in tenths: 0.1f is 1, 1.0f is 10.
DecimalTenths(f) ==
    IF f[2] = 0 THEN 10 * f[1] ELSE (10 * f[1] + 2 ^ (f[2] - 1)) \div (2 ^ f[2])

\* pos + v * dt in exact arithmetic, as an equation between counts of twentieths
\* (a half unit is ten twentieths, v * tenths / 10 units is 2 * v * tenths).
ExactAdvance(after, before, v, f) == 10 * after = 10 * before + 2 * v * DecimalTenths(f)

\* Sum of a sequence of durations.
RECURSIVE SumSeq(_)
SumSeq(q) == IF q = <<>> THEN 0 ELSE q[1] + SumSeq(Tail(q))

\* k calls of update_particles with the constant time step.
RECURSIVE IterateOne(_, _)
IterateOne(p, k) == IF k = 0 THEN p ELSE IterateOne(UpdateOne(p, DT), k - 1)

Iterate(data, k) == [i \in 1..Len(data) |-> IterateOne(data[i], k)]

\* C1: after a call of update_particles every particle's velocity component is
\* the negation of the one it had iff the advanced coordinate is < 0 or > 500
\* (exactly 0 and exactly 500 do not flip), and the advanced coordinate is kept
\* as computed, also outside the box: x = 498, vx = 10, dt = 1 gives 508 and -10.
C1_ReflectionAfterAdvance ==
    pc = "returned" =>
        \A i \in Idx :
            /\ particles[i].vx = (IF particles[i].x < 0 \/ particles[i].x > 2 * 500
                                  THEN -prev[i].vx ELSE prev[i].vx)
            /\ particles[i].vy = (IF particles[i].y < 0 \/ particles[i].y > 2 * 500
                                  THEN -prev[i].vy ELSE prev[i].vy)
            /\ ExactAdvance(particles[i].x, prev[i].x, prev[i].vx, dt)
            /\ ExactAdvance(particles[i].y, prev[i].y, prev[i].vy, dt)
            /\ (dt = ONE /\ prev[i].x = 2 * 498 /\ prev[i].vx = 10)
                  => (particles[i].x = 2 * 508 /\ particles[i].vx = -10)

\* C1 witness: the call has returned for the example, and for a particle that
\* landed exactly on the wall at 500 and kept its velocity.
C1_Witness ==
    /\ pc = "returned"
    /\ dt = ONE
    /\ prev[1].x = 2 * 498 /\ prev[1].vx = 10
    /\ particles[1].x = 2 * 508 /\ particles[1].vx = -10
    /\ prev[2].x = 2 * 490 /\ particles[2].x = 2 * 500 /\ particles[2].vx = 10

\* C2: after one call of update_particles every particle's position is
\* x + vx * dt and y + vy * dt for the position and velocity it had before the
\* call and the decimal value of dt; it depends on no other particle.
C2_AffineUpdate ==
    pc = "returned" =>
        /\ Len(particles) = Len(prev)
        /\ \A i \in Idx :
              /\ OnGrid(F32Mul(prev[i].vx, dt), dt[2])
              /\ OnGrid(F32Mul(prev[i].vy, dt), dt[2])
              /\ ExactAdvance(particles[i].x, prev[i].x, prev[i].vx, dt)
              /\ ExactAdvance(particles[i].y, prev[i].y, prev[i].vy, dt)

\* C2 witness: a call with dt = 0.1f has returned, two particles moved by
\* different amounts, one of them across the wall.
C2_Witness ==
    /\ pc = "returned"
    /\ dt = DT
    /\ prev[1].x = 2 * 499 /\ prev[1].vx = 10 /\ particles[1].x = 2 * 500
    /\ prev[2].x = 0 /\ prev[2].vx = -10 /\ particles[2].x = -2
    /\ prev[2].y = 2 * 498 /\ particles[2].y = 2 * 499

\* C3: in every state the particle vector has the length it was constructed
\* with; the stepper returns one particle per element and the renderer draws
\* one circle per element.
C3_PopulationFixed ==
    /\ Len(particles) = NUM_PARTICLES
    /\ DOMAIN particles = 1..NUM_PARTICLES
    /\ step_calls >= 1 => Len(prev) = Len(particles)
    /\ render_calls >= 1 => Len(frame.circles) = Len(particles)

\* C3 witness: the population after two frames have been stepped and drawn.
C3_Witness ==
    /\ step_calls >= 2
    /\ render_calls >= 2
    /\ Len(frame.circles) = NUM_PARTICLES
    /\ particles # start_particles

C5_RunningMean ==
    /\ frame_count = Len(history)
    /\ total_latency_us = SumSeq(history)
    /\ frame_count >= 1 =>
          /\ average_latency[2] > 0
          /\ average_latency[1] * Len(history) = SumSeq(history) * average_latency[2]
    /\ pc \in {"render", "present", "poll", "stopped"} =>
          current_latency = history[Len(history)]
    /\ (render_calls >= 1 /\ pc # "render") =>
          /\ frame.instant = history[Len(history)]
          /\ frame.average = SumSeq(history) \div Len(history)
    /\ history = <<10>> => average_latency[1] = 10 * average_latency[2]
    /\ history = <<10, 20>> => average_latency[1] = 15 * average_latency[2]
    /\ history = <<10, 20, 30>> => average_latency[1] = 20 * average_latency[2]

\* C5 witness: the third of the durations 10, 20, 30 has been recorded and shown.
C5_Witness ==
    /\ pc = "poll"
    /\ history = <<10, 20, 30>>
    /\ average_latency = <<60, 3>>
    /\ shown.instant = 30
    /\ shown.average = 20

\* C6: the loop is left only by a key poll that returns 27, and is left by
\* every such poll; any other poll result starts another iteration; once the
\* loop is left nothing is stepped, recorded, drawn or polled.
C6_Cancellation ==
    [][ /\ (pc # "stopped" /\ pc' = "stopped") =>
              (pc = "poll" /\ key' = 27 /\ poll_calls' = poll_calls + 1)
        /\ (pc = "poll" /\ poll_calls' # poll_calls /\ key' = 27) => pc' = "stopped"
        /\ (pc = "poll" /\ poll_calls' # poll_calls /\ key' # 27) =>
              (pc' = "step" /\ step_calls' = step_calls)
        /\ pc = "stopped" =>
              (/\ pc' = "stopped"
               /\ UNCHANGED <<particles, step_calls, frame_count, total_latency_us,
                              render_calls, present_calls, poll_calls>>) ]_vars

\* C6 witness: the loop was continued by one poll and left by the next.
C6_Witness ==
    /\ pc = "stopped"
    /\ key = 27
    /\ poll_calls = 2
    /\ step_calls = 2

\* C7: in every drawn frame the circle of index i is red for i < N/2 (the
\* integer quotient) and
\* yellow otherwise, whatever the particle's position and velocity, and there
\* is exactly one circle per index.
C7_ColorPartition ==
    render_calls >= 1 =>
        /\ Len(frame.circles) = NUM_PARTICLES
        /\ \A k \in 1..Len(frame.circles) :
              /\ frame.circles[k].index = k - 1
              /\ frame.circles[k].color =
                    (IF k - 1 < NUM_PARTICLES \div 2 THEN <<0, 0, 255>> ELSE <<0, 255, 255>>)

\* C7 witness: a frame in which two particles with the same position and
\* velocity are drawn in the two colours, both left of the middle.
C7_Witness ==
    /\ pc = "present"
    /\ particles[1] = particles[NUM_PARTICLES]
    /\ particles[1].x < 500
    /\ frame.circles[1].color = <<0, 0, 255>>
    /\ frame.circles[NUM_PARTICLES].color = <<0, 255, 255>>
    /\ frame.circles[1].cx = frame.circles[NUM_PARTICLES].cx

\* C8: each iteration steps, records, draws, presents and polls once, in this
\* order; the count is at least 1 whenever the average has been computed or is
\* drawn; the recorded observations equal the step calls, the one being
\* recorded excepted.
C8_LoopOrdering ==
    /\ pc \in {"init", "step", "record", "render", "present", "poll", "stopped"}
    /\ pc = "init" => step_calls = 0 /\ frame_count = 0
    /\ step_calls = (IF pc = "record" THEN frame_count + 1 ELSE frame_count)
    /\ render_calls = (IF pc \in {"record", "render"} THEN step_calls - 1 ELSE step_calls)
    /\ present_calls = (IF pc \in {"record", "render", "present"}
                        THEN step_calls - 1 ELSE step_calls)
    /\ poll_calls = (IF pc \in {"record", "render", "present", "poll"}
                     THEN step_calls - 1 ELSE step_calls)
    /\ pc \in {"render", "present", "poll", "stopped"} => frame_count >= 1
    /\ (frame_count >= 1 \/ render_calls >= 1) => average_latency[2] >= 1

\* C8 as stated: the recorded observations always equal the step calls made.
C8_CountAlwaysEqualsSteps == frame_count = step_calls

\* C8 witness: the second iteration is about to draw.
C8_Witness ==
    /\ pc = "render"
    /\ step_calls = 2
    /\ frame_count = 2
    /\ render_calls = 1
    /\ poll_calls = 1
    /\ average_latency[2] = 2

\* C9: every call is made with dt = 0.1f, and the particle state after k
\* iterations is the state the loop was entered with advanced k times by that
\* step, whatever durations were measured and whatever keys were polled.
C9_TimingDecoupled ==
    /\ dt = DT
    /\ pc # "init" => particles = Iterate(start_particles, step_calls)

\* C9 witness: two frames with different durations and a key press between.
C9_Witness ==
    /\ pc = "poll"
    /\ history = <<10, 20>>
    /\ key = 32
    /\ step_calls = 2
    /\ particles # start_particles

\* C10: from an initial state of the program and with dt = 0.1f no particle
\* is outside [0, 500] on an axis after two consecutive ticks, and no velocity
\* component is flipped by two consecutive ticks.
C10_MomentaryOvershoot ==
    pc # "init" =>
        \A i \in Idx :
            /\ ~(Outside(prev[i].x) /\ Outside(particles[i].x))
            /\ ~(Outside(prev[i].y) /\ Outside(particles[i].y))
            /\ ~(prev_flipped[i].x /\ flipped[i].x)
            /\ ~(prev_flipped[i].y /\ flipped[i].y)

\* C10 witness: a particle that was outside after a tick, with its velocity
\* flipped, and is inside after the next.
C10_Witness ==
    /\ step_calls >= 2
    /\ \E i \in Idx :
          /\ Outside(prev[i].x)
          /\ ~Outside(particles[i].x)
          /\ prev_flipped[i].x
          /\ ~flipped[i].x

====
